---- MODULE Spec2Model ----
(***************************************************************************)
(* Model of src/input/synthpop.py: the MATSim population generator.        *)
(*                                                                         *)
(* create_population is modelled statement by statement as a loop over     *)
(* agents and trips that grows an ElementTree; main is modelled as the     *)
(* sequence of prompts, validations, the build and the file output.        *)
(*                                                                         *)
(* Instants (datetime) are records [s, us]: whole seconds counted from     *)
(* 00:00:00 of the day of the first datetime.now() read, and microseconds  *)
(* 0..999999, which is the resolution datetime/timedelta keep.             *)
(***************************************************************************)
EXTENDS Integers, Sequences, FiniteSets, TLC

VARIABLES
    pc,               \* position in main / create_population
    num_agents,       \* argument of create_population
    trips_per_agent,  \* argument of create_population
    start_hour,       \* argument of create_population
    end_hour,         \* argument of create_population
    midnight_between, \* the date changed between the two datetime.now() reads
    start_time,       \* local of create_population (instant)
    end_time,         \* local of create_population (instant)
    time_window,      \* local: whole seconds of end_time - start_time
    total_trips,      \* local
    population,       \* the ElementTree under construction
    agent_num,        \* outer loop variable
    trip_num,         \* inner loop variable
    trip_slot,        \* local of the trip loop
    max_variation,    \* local of the trip loop
    variation,        \* local of the trip loop: the random.randint draw
    trip_time,        \* local of the trip loop (instant, after jitter)
    trip_times,       \* the trips so far, in loop order: [agent, trip, time]
    population_content, \* return value of create_population
    stdin,            \* what input() returned for the four prompts so far
    response,         \* answer to the overwrite prompt
    prompted,         \* the overwrite prompt was issued
    output_file,      \* local of main
    opened,           \* file names this run opened for writing
    fs,               \* the files of the working directory
    fs_before,        \* fs when main started
    error,            \* which except clause ran: "none", "ValueError", "Exception"
    exit_code         \* exit status of the process, -1 while it runs

vars == <<pc, num_agents, trips_per_agent, start_hour, end_hour,
          midnight_between, start_time, end_time, time_window, total_trips,
          population, agent_num, trip_num, trip_slot, max_variation,
          variation, trip_time, trip_times, population_content, stdin,
          response, prompted, output_file, opened, fs, fs_before, error,
          exit_code>>

build_vars == <<num_agents, trips_per_agent, start_hour, end_hour,
                midnight_between, start_time, end_time, time_window,
                total_trips, population, agent_num, trip_num, trip_slot,
                max_variation, variation, trip_time, trip_times,
                population_content>>

main_vars == <<stdin, response, prompted, output_file, opened, fs,
               fs_before, error, exit_code>>

-----------------------------------------------------------------------------
(* Bounds of the model                                                     *)

MaxAgents == 7
MaxTrips == 3
MaxTotalTrips == 7
\* a population so dense that the spacing drops below ten seconds
DenseAgents == 400

-----------------------------------------------------------------------------
(* datetime / timedelta                                                    *)

SecondsPerHour == 3600
SecondsPerDay == 86400
MicrosPerSecond == 1000000

\* datetime.now().replace(hour=h, minute=0, second=0, microsecond=0), read on
\* day `day` (0 = the day of the first read)
AtHour(day, h) == [s |-> day * SecondsPerDay + h * SecondsPerHour, us |-> 0]

\* dt + timedelta(seconds=n) for an integer n
PlusSeconds(dt, n) == [s |-> dt.s + n, us |-> dt.us]

\* round-half-even of num/den, num >= 0, den > 0
RoundHalfEven(num, den) ==
    LET q == num \div den
        r == num % den
    IN  IF 2 * r > den THEN q + 1
        ELSE IF 2 * r < den THEN q
        ELSE q + (q % 2)

\* timedelta(seconds=num/den): the quotient is kept to the microsecond,
\* rounded half to even.  num >= 0, den > 0.
TimedeltaOfQuotient(num, den) ==
    LET whole == num \div den
        frac  == RoundHalfEven((num % den) * MicrosPerSecond, den)
    IN  IF frac = MicrosPerSecond THEN [s |-> whole + 1, us |-> 0]
        ELSE [s |-> whole, us |-> frac]

\* dt + td
PlusTimedelta(dt, td) ==
    LET u == dt.us + td.us
    IN  IF u >= MicrosPerSecond
        THEN [s |-> dt.s + td.s + 1, us |-> u - MicrosPerSecond]
        ELSE [s |-> dt.s + td.s, us |-> u]

Digit(d) == <<"0", "1", "2", "3", "4", "5", "6", "7", "8", "9">>[d + 1]

RECURSIVE FormatInt(_)
\* f"{n}" for n >= 0
FormatInt(n) == IF n < 10 THEN Digit(n) ELSE FormatInt(n \div 10) \o Digit(n % 10)

\* f"{n:02d}" for 0 <= n < 100
TwoDigits(n) == Digit(n \div 10) \o Digit(n % 10)

\* dt.strftime("%H:%M:%S"): the wall-clock time of day; the date and the
\* microseconds are dropped
StrfTime(dt) ==
    LET sod == dt.s % SecondsPerDay
    IN  TwoDigits(sod \div 3600) \o ":" \o TwoDigits((sod % 3600) \div 60)
            \o ":" \o TwoDigits(sod % 60)

-----------------------------------------------------------------------------
(* xml.etree.ElementTree                                                   *)

\* ET.Element(tag): attrib is the ordered list of <<name, value>> pairs
Element(tag) == [tag |-> tag, attrib |-> <<>>, text |-> "", children |-> <<>>]

\* el.set(name, value) for a name not yet set
SetAttr(el, name, value) == [el EXCEPT !.attrib = Append(@, <<name, value>>)]

SetText(el, text) == [el EXCEPT !.text = text]

\* ET.SubElement(parent, child): the child is appended
SubElement(parent, child) == [parent EXCEPT !.children = Append(@, child)]

HasAttr(el, name) == \E i \in 1..Len(el.attrib) : el.attrib[i][1] = name

GetAttr(el, name) ==
    el.attrib[CHOOSE i \in 1..Len(el.attrib) : el.attrib[i][1] = name][2]

-----------------------------------------------------------------------------
(* create_population                                                       *)

\* lines 12-18: the second now() is read on day 1 when midnight fell between
\* the two reads
StartTime(sh) == AtHour(0, sh)

EndTime(sh, eh, rolled) ==
    LET e == AtHour(IF rolled THEN 1 ELSE 0, eh)
    IN  IF eh <= sh THEN PlusSeconds(e, SecondsPerDay) ELSE e

TimeWindow(st, et) == et.s - st.s

\* range(n + 1) in place of range(n)
InRangeOneMore(i, n) == i >= 0 /\ i <= n

\* range(n) membership
InRange(i, n) == i >= 0 /\ i < n

vehicle_types == <<"ev", "lev", "hev">>

\* the rotation forgets the third type
VehicleTypeOfTwo(i) == vehicle_types[(i % 2) + 1]

VehicleType(i) == vehicle_types[(i % Len(vehicle_types)) + 1]

AgentId(vehicle_type, i) == vehicle_type \o "_agent_" \o FormatInt(i)

VehicleAttrText(vehicle_type) == vehicle_type \o "_car"

\* lines 39-51: the person with its attributes block and its empty plan
NewPerson(i) ==
    LET vehicle_type == VehicleType(i)
        vehicle_attr ==
            SetText(SetAttr(SetAttr(Element("attribute"),
                                    "name", "vehicleType"),
                            "class", "java.lang.String"),
                    VehicleAttrText(vehicle_type))
        attributes == SubElement(Element("attributes"), vehicle_attr)
        plan == SetAttr(Element("plan"), "selected", "yes")
    IN  SubElement(SubElement(SetAttr(Element("person"), "id",
                                      AgentId(vehicle_type, i)),
                              attributes),
                   plan)

\* the slot forgets the trips of the earlier agents
TripSlotPerAgent(i, tpa, j) == i + j

TripSlot(i, tpa, j) == i * tpa + j

\* line 57: start_time + timedelta(seconds=trip_slot * time_per_trip), with
\* time_per_trip = window / total
NominalTime(st, slot, window, total) ==
    PlusTimedelta(st, TimedeltaOfQuotient(slot * window, total))

\* int(time_per_trip * 1.0): jitter of a whole spacing
MaxVariationWhole(window, total) == window \div total

\* line 60: int(time_per_trip * 0.1)
MaxVariation(window, total) == window \div (10 * total)

\* the parity test inverted
IsWestboundEven(j) == j % 2 = 0

IsWestbound(j) == j % 2 = 1

FirstActivity(j, tt) ==
    LET w == IsWestbound(j)
    IN  SetAttr(SetAttr(SetAttr(Element("activity"),
                                "type", IF w THEN "work" ELSE "home"),
                        "link", IF w THEN "6" ELSE "1"),
                "end_time", StrfTime(tt))

Leg(j) ==
    LET route == SetText(SetAttr(Element("route"), "type", "links"),
                         IF IsWestbound(j) THEN "6,4,2" ELSE "1,3,5")
    IN  SubElement(SetAttr(Element("leg"), "mode", "car"), route)

\* the end time added to every final activity
NotLastActivityAlways(j, tpa) == j < tpa

\* line 93
NotLastActivity(j, tpa) == j < tpa - 1

ThirtyMinutes == 30 * 60

FinalActivity(j, tpa, tt) ==
    LET w == IsWestbound(j)
        act == SetAttr(SetAttr(Element("activity"),
                               "type", IF w THEN "home" ELSE "work"),
                       "link", IF w THEN "1" ELSE "6")
    IN  IF NotLastActivity(j, tpa)
        THEN SetAttr(act, "end_time", StrfTime(PlusSeconds(tt, ThirtyMinutes)))
        ELSE act

\* the draws of random.randint(-mv, mv) the model follows: both ends of the
\* range and the middle
Draws(mv) == {-mv, 0, mv}

\* format_xml: the declaration line, the doctype line and the indented tree
FormatXml(tree) ==
    [declaration |-> "<?xml version=\"1.0\" encoding=\"utf-8\"?>",
     doctype |-> "<!DOCTYPE population SYSTEM \"http://www.matsim.org/files/dtd/population_v6.dtd\">",
     indent |-> 4,
     root |-> tree]

NoInstant == [s |-> 0, us |-> 0]
NoContent == FormatXml(Element("none"))

\* lines 9-30
Setup ==
    /\ pc = "create_population"
    /\ start_time' = StartTime(start_hour)
    /\ end_time' = EndTime(start_hour, end_hour, midnight_between)
    /\ time_window' = TimeWindow(StartTime(start_hour),
                                 EndTime(start_hour, end_hour,
                                         midnight_between))
    /\ total_trips' = num_agents * trips_per_agent
    /\ population' = Element("population")
    /\ agent_num' = 0
    /\ pc' = "agents"
    /\ UNCHANGED <<num_agents, trips_per_agent, start_hour, end_hour,
                   midnight_between, trip_num, trip_slot, max_variation,
                   variation, trip_time, trip_times, population_content>>
    /\ UNCHANGED main_vars

\* lines 33-51
BeginAgent ==
    /\ pc = "agents"
    /\ InRange(agent_num, num_agents)
    /\ population' = SubElement(population, NewPerson(agent_num))
    /\ trip_num' = 0
    /\ pc' = "trips"
    /\ UNCHANGED <<num_agents, trips_per_agent, start_hour, end_hour,
                   midnight_between, start_time, end_time, time_window,
                   total_trips, agent_num, trip_slot, max_variation,
                   variation, trip_time, trip_times, population_content>>
    /\ UNCHANGED main_vars

\* lines 54-95
AddTrip ==
    /\ pc = "trips"
    /\ InRange(trip_num, trips_per_agent)
    /\ LET slot == TripSlot(agent_num, trips_per_agent, trip_num)
           mv == MaxVariation(time_window, total_trips)
       IN  \E v \in Draws(mv) :
             LET tt == PlusSeconds(NominalTime(start_time, slot, time_window,
                                               total_trips), v)
                 first_act == FirstActivity(trip_num, tt)
                 leg == Leg(trip_num)
                 final_act == FinalActivity(trip_num, trips_per_agent, tt)
             IN  /\ trip_slot' = slot
                 /\ max_variation' = mv
                 /\ variation' = v
                 /\ trip_time' = tt
                 /\ trip_times' = Append(trip_times,
                                          [agent |-> agent_num,
                                           trip |-> trip_num, time |-> tt])
                 /\ population' =
                      [population EXCEPT
                         !.children[agent_num + 1].children[2] =
                            SubElement(SubElement(SubElement(@, first_act),
                                                  leg),
                                       final_act)]
    /\ trip_num' = trip_num + 1
    /\ UNCHANGED <<pc, num_agents, trips_per_agent, start_hour, end_hour,
                   midnight_between, start_time, end_time, time_window,
                   total_trips, agent_num, population_content>>
    /\ UNCHANGED main_vars

\* line 97 and the next iteration of the agent loop
EndAgent ==
    /\ pc = "trips"
    /\ ~InRange(trip_num, trips_per_agent)
    /\ agent_num' = agent_num + 1
    /\ pc' = "agents"
    /\ UNCHANGED <<num_agents, trips_per_agent, start_hour, end_hour,
                   midnight_between, start_time, end_time, time_window,
                   total_trips, population, trip_num, trip_slot,
                   max_variation, variation, trip_time, trip_times,
                   population_content>>
    /\ UNCHANGED main_vars

\* line 99
Return ==
    /\ pc = "agents"
    /\ ~InRange(agent_num, num_agents)
    /\ population_content' = FormatXml(population)
    /\ pc' = "returned"
    /\ UNCHANGED <<num_agents, trips_per_agent, start_hour, end_hour,
                   midnight_between, start_time, end_time, time_window,
                   total_trips, population, agent_num, trip_num, trip_slot,
                   max_variation, variation, trip_time, trip_times>>
    /\ UNCHANGED main_vars

-----------------------------------------------------------------------------
(* The files of the working directory                                      *)

PopulationXml == "population.xml"

\* f'population_{timestamp}.xml' for the second at which line 143 runs
TimestampedXml == "population_20260101_120000.xml"

FileNames == {PopulationXml, TimestampedXml}

Absent == [exists |-> FALSE, data |-> "none"]
\* a file some earlier run left behind
Earlier == [exists |-> TRUE, data |-> "earlier"]

-----------------------------------------------------------------------------
(* create_population called directly on validated arguments                *)

\* the windows the builder is run on, <<start_hour, end_hour, midnight
\* between the clock reads>>: the example of the specification, an overnight
\* window, and a full day from midnight read across a change of date
Windows == {<<6, 9, FALSE>>, <<22, 4, FALSE>>, <<0, 0, TRUE>>}

\* the dense population is run on a single hour
DenseWindow == <<0, 1, FALSE>>

BuildInputs ==
    {<<n, t, w>> \in (1..MaxAgents) \X (1..MaxTrips) \X Windows :
        n * t <= MaxTotalTrips}
    \cup {<<DenseAgents, 1, DenseWindow>>}

\* the locals of create_population before its first statement
BeforeSetup ==
    /\ start_time = NoInstant
    /\ end_time = NoInstant
    /\ time_window = 0
    /\ total_trips = 0
    /\ population = Element("none")
    /\ agent_num = 0
    /\ trip_num = 0
    /\ trip_slot = 0
    /\ max_variation = 0
    /\ variation = 0
    /\ trip_time = NoInstant
    /\ trip_times = <<>>
    /\ population_content = NoContent

\* main before its first prompt, in a directory holding `files`
BeforeMain(files) ==
    /\ stdin = <<>>
    /\ response = <<>>
    /\ prompted = FALSE
    /\ output_file = "none"
    /\ opened = {}
    /\ fs = files
    /\ fs_before = files
    /\ error = "none"
    /\ exit_code = -1

InitBuild ==
    /\ pc = "create_population"
    /\ \E in \in BuildInputs :
         /\ num_agents = in[1]
         /\ trips_per_agent = in[2]
         /\ start_hour = in[3][1]
         /\ end_hour = in[3][2]
         /\ midnight_between = in[3][3]
    /\ BeforeSetup
    /\ BeforeMain([f \in FileNames |-> Absent])

\* create_population on every window of the day, for one or two agents
InitWindow ==
    /\ pc = "create_population"
    /\ num_agents \in 1..2
    /\ trips_per_agent = 1
    /\ start_hour \in 0..23
    /\ end_hour \in 0..23
    /\ midnight_between \in BOOLEAN
    /\ BeforeSetup
    /\ BeforeMain([f \in FileNames |-> Absent])

NextBuild == Setup \/ BeginAgent \/ AddTrip \/ EndAgent \/ Return

Spec == InitBuild /\ [][NextBuild]_vars

SpecWindow == InitWindow /\ [][NextBuild]_vars

-----------------------------------------------------------------------------
(* main: text read from the console is a sequence of characters            *)

IsSpace(c) == c \in {" ", "\t"}

RECURSIVE LStrip(_)
LStrip(cs) == IF cs # <<>> /\ IsSpace(Head(cs)) THEN LStrip(Tail(cs)) ELSE cs

RECURSIVE RStrip(_)
RStrip(cs) ==
    IF cs # <<>> /\ IsSpace(cs[Len(cs)])
    THEN RStrip(SubSeq(cs, 1, Len(cs) - 1))
    ELSE cs

IsDigit(c) == \E d \in 0..9 : Digit(d) = c

DigitValue(c) == CHOOSE d \in 0..9 : Digit(d) = c

\* the digits of an integer literal: single underscores may separate digits
ValidDigits(cs) ==
    /\ cs # <<>>
    /\ \A i \in 1..Len(cs) :
         \/ IsDigit(cs[i])
         \/ /\ cs[i] = "_"
            /\ i > 1 /\ i < Len(cs)
            /\ IsDigit(cs[i - 1]) /\ IsDigit(cs[i + 1])

RECURSIVE DigitsValue(_, _)
DigitsValue(cs, acc) ==
    IF cs = <<>> THEN acc
    ELSE IF Head(cs) = "_" THEN DigitsValue(Tail(cs), acc)
    ELSE DigitsValue(Tail(cs), 10 * acc + DigitValue(Head(cs)))

\* int(text): ok is FALSE where int raises ValueError
ParseInt(cs) ==
    LET t == RStrip(LStrip(cs))
        signed == t # <<>> /\ Head(t) \in {"+", "-"}
        body == IF signed THEN Tail(t) ELSE t
        ok == ValidDigits(body)
        v == IF ok THEN DigitsValue(body, 0) ELSE 0
    IN  [ok |-> ok, value |-> IF signed /\ Head(t) = "-" THEN 0 - v ELSE v]

UpperCase == <<"A", "B", "C", "D", "E", "F", "G", "H", "I", "J", "K", "L", "M",
               "N", "O", "P", "Q", "R", "S", "T", "U", "V", "W", "X", "Y", "Z">>
LowerCase == <<"a", "b", "c", "d", "e", "f", "g", "h", "i", "j", "k", "l", "m",
               "n", "o", "p", "q", "r", "s", "t", "u", "v", "w", "x", "y", "z">>

LowerChar(c) ==
    IF \E i \in 1..Len(UpperCase) : UpperCase[i] = c
    THEN LowerCase[CHOOSE i \in 1..Len(UpperCase) : UpperCase[i] = c]
    ELSE c

\* str.lower()
Lower(cs) == [i \in 1..Len(cs) |-> LowerChar(cs[i])]

\* end of input: input() raises EOFError
EOF == <<"<EOF>">>

\* lines 115, 119
PositiveCount(n) == n > 0

\* lines 123, 127
ValidHour(h) == 0 <= h /\ h <= 23

\* the answer is compared without lower()
OutputFileCaseSensitive(exists, resp) ==
    IF exists /\ resp # <<"y">> THEN TimestampedXml ELSE PopulationXml

\* lines 139-144: the file the run writes to
OutputFile(exists, resp) ==
    IF exists /\ Lower(resp) # <<"y">> THEN TimestampedXml ELSE PopulationXml

\* the lines typed at the two count prompts and at the two hour prompts
CountLines == {<<"a">>, <<>>, <<"1", ".", "5">>, <<"0">>, <<"-", "1">>,
               <<"1">>, <<" ", "2", " ">>, EOF}
HourLines == {<<"x">>, <<"-", "1">>, <<"2", "4">>, <<"0">>, <<"+", "2", "3">>,
              EOF}
\* the answers typed at the overwrite prompt
Responses == {<<"y">>, <<"Y">>, <<"n">>, <<>>, <<"y", "e", "s">>, <<" ", "y">>,
              EOF}

\* the except clauses of lines 150-155: both end in sys.exit(1)
Fail(kind) ==
    /\ error' = kind
    /\ exit_code' = 1
    /\ pc' = "exited"

\* what reading one integer leads to: EOFError, ValueError of int(), or the
\* value
ReadOutcome(line) ==
    IF line = EOF THEN "Exception"
    ELSE IF ~ParseInt(line).ok THEN "ValueError"
    ELSE "value"

\* lines 114-116
ReadAgents ==
    /\ pc = "main"
    /\ \E line \in CountLines :
         /\ stdin' = Append(stdin, line)
         /\ IF ReadOutcome(line) # "value"
            THEN Fail(ReadOutcome(line)) /\ UNCHANGED num_agents
            ELSE /\ num_agents' = ParseInt(line).value
                 /\ IF PositiveCount(ParseInt(line).value)
                    THEN pc' = "read_trips" /\ UNCHANGED <<error, exit_code>>
                    ELSE Fail("ValueError")
    /\ UNCHANGED <<trips_per_agent, start_hour, end_hour, midnight_between,
                   start_time, end_time, time_window, total_trips, population,
                   agent_num, trip_num, trip_slot, max_variation, variation,
                   trip_time, trip_times, population_content>>
    /\ UNCHANGED <<response, prompted, output_file, opened, fs, fs_before>>

\* lines 118-120
ReadTrips ==
    /\ pc = "read_trips"
    /\ \E line \in CountLines :
         /\ stdin' = Append(stdin, line)
         /\ IF ReadOutcome(line) # "value"
            THEN Fail(ReadOutcome(line)) /\ UNCHANGED trips_per_agent
            ELSE /\ trips_per_agent' = ParseInt(line).value
                 /\ IF PositiveCount(ParseInt(line).value)
                    THEN pc' = "read_start" /\ UNCHANGED <<error, exit_code>>
                    ELSE Fail("ValueError")
    /\ UNCHANGED <<num_agents, start_hour, end_hour, midnight_between,
                   start_time, end_time, time_window, total_trips, population,
                   agent_num, trip_num, trip_slot, max_variation, variation,
                   trip_time, trip_times, population_content>>
    /\ UNCHANGED <<response, prompted, output_file, opened, fs, fs_before>>

\* lines 122-124
ReadStartHour ==
    /\ pc = "read_start"
    /\ \E line \in HourLines :
         /\ stdin' = Append(stdin, line)
         /\ IF ReadOutcome(line) # "value"
            THEN Fail(ReadOutcome(line)) /\ UNCHANGED start_hour
            ELSE /\ start_hour' = ParseInt(line).value
                 /\ IF ValidHour(ParseInt(line).value)
                    THEN pc' = "read_end" /\ UNCHANGED <<error, exit_code>>
                    ELSE Fail("ValueError")
    /\ UNCHANGED <<num_agents, trips_per_agent, end_hour, midnight_between,
                   start_time, end_time, time_window, total_trips, population,
                   agent_num, trip_num, trip_slot, max_variation, variation,
                   trip_time, trip_times, population_content>>
    /\ UNCHANGED <<response, prompted, output_file, opened, fs, fs_before>>

\* lines 126-131: the last prompt; valid input enters create_population
ReadEndHour ==
    /\ pc = "read_end"
    /\ \E line \in HourLines :
         /\ stdin' = Append(stdin, line)
         /\ IF ReadOutcome(line) # "value"
            THEN Fail(ReadOutcome(line)) /\ UNCHANGED end_hour
            ELSE /\ end_hour' = ParseInt(line).value
                 /\ IF ValidHour(ParseInt(line).value)
                    THEN /\ pc' = "create_population"
                         /\ UNCHANGED <<error, exit_code>>
                    ELSE Fail("ValueError")
    /\ UNCHANGED <<num_agents, trips_per_agent, start_hour, midnight_between,
                   start_time, end_time, time_window, total_trips, population,
                   agent_num, trip_num, trip_slot, max_variation, variation,
                   trip_time, trip_times, population_content>>
    /\ UNCHANGED <<response, prompted, output_file, opened, fs, fs_before>>

\* lines 139-144, population.xml absent: no prompt
ChooseDefaultFile ==
    /\ pc = "returned"
    /\ ~fs[PopulationXml].exists
    /\ output_file' = OutputFile(FALSE, <<>>)
    /\ pc' = "open"
    /\ UNCHANGED build_vars
    /\ UNCHANGED <<stdin, response, prompted, opened, fs, fs_before, error,
                   exit_code>>

\* lines 139-144, population.xml present: the overwrite prompt
AskOverwrite ==
    /\ pc = "returned"
    /\ fs[PopulationXml].exists
    /\ prompted' = TRUE
    /\ \E line \in Responses :
         /\ response' = line
         /\ IF line = EOF
            THEN Fail("Exception") /\ UNCHANGED output_file
            ELSE /\ output_file' = OutputFile(TRUE, line)
                 /\ pc' = "open"
                 /\ UNCHANGED <<error, exit_code>>
    /\ UNCHANGED build_vars
    /\ UNCHANGED <<stdin, opened, fs, fs_before>>

\* line 146: open(output_file, 'w') creates the file or truncates it
OpenFile ==
    /\ pc = "open"
    /\ opened' = opened \cup {output_file}
    /\ fs' = [fs EXCEPT ![output_file] = [exists |-> TRUE, data |-> "empty"]]
    /\ pc' = "write"
    /\ UNCHANGED build_vars
    /\ UNCHANGED <<stdin, response, prompted, output_file, fs_before, error,
                   exit_code>>

\* line 146: open raises OSError (no permission, read-only directory)
OpenFails ==
    /\ pc = "open"
    /\ Fail("Exception")
    /\ UNCHANGED build_vars
    /\ UNCHANGED <<stdin, response, prompted, output_file, opened, fs,
                   fs_before>>

\* lines 147-148 and the end of main: content written, file closed
WriteFile ==
    /\ pc = "write"
    /\ fs' = [fs EXCEPT ![output_file] = [exists |-> TRUE, data |-> "complete"]]
    /\ exit_code' = 0
    /\ pc' = "exited"
    /\ UNCHANGED build_vars
    /\ UNCHANGED <<stdin, response, prompted, output_file, opened, fs_before,
                   error>>

\* line 147 or the close at the end of the with block raises OSError (disk
\* full): the file keeps whatever reached it, nothing or a prefix
WriteFails ==
    /\ pc = "write"
    /\ \E got \in {"empty", "partial"} :
         fs' = [fs EXCEPT ![output_file] = [exists |-> TRUE, data |-> got]]
    /\ Fail("Exception")
    /\ UNCHANGED build_vars
    /\ UNCHANGED <<stdin, response, prompted, output_file, opened, fs_before>>

InitMain ==
    /\ pc = "main"
    /\ num_agents = 0
    /\ trips_per_agent = 0
    /\ start_hour = 0
    /\ end_hour = 0
    /\ midnight_between \in BOOLEAN
    /\ BeforeSetup
    /\ \E files \in [FileNames -> {Absent, Earlier}] : BeforeMain(files)

NextMain ==
    \/ ReadAgents \/ ReadTrips \/ ReadStartHour \/ ReadEndHour
    \/ Setup \/ BeginAgent \/ AddTrip \/ EndAgent \/ Return
    \/ ChooseDefaultFile \/ AskOverwrite
    \/ OpenFile \/ OpenFails \/ WriteFile \/ WriteFails

SpecMain == InitMain /\ [][NextMain]_vars

-----------------------------------------------------------------------------
(* Reading the produced tree                                               *)

\* create_population has returned
Produced == population_content # NoContent

Persons == population_content.root.children

WithTag(children, tag) == SelectSeq(children, LAMBDA c : c.tag = tag)

Plans(person) == WithTag(person.children, "plan")

\* the plan of the i-th person (0-based), the person having exactly one
PlanOf(i) == Plans(Persons[i + 1])[1]

Activities(plan) == WithTag(plan.children, "activity")

Legs(plan) == WithTag(plan.children, "leg")

\* the instant the loop computed for trip j of agent i
TimeOf(i, j) ==
    LET k == CHOOSE k \in 1..Len(trip_times) :
                 trip_times[k].agent = i /\ trip_times[k].trip = j
    IN  trip_times[k].time

Before(a, b) == a.s < b.s \/ (a.s = b.s /\ a.us < b.us)

Abs(x) == IF x < 0 THEN 0 - x ELSE x

-----------------------------------------------------------------------------
(* Claims                                                                  *)

\* C1: the produced population has exactly agent_count persons, each person
\* has exactly one plan, and each plan has exactly trips_per_agent legs.
C1_Counts ==
    Produced =>
        /\ Len(Persons) = num_agents
        /\ \A p \in 1..Len(Persons) :
             /\ Persons[p].tag = "person"
             /\ Len(Plans(Persons[p])) = 1
             /\ Len(Legs(Plans(Persons[p])[1])) = trips_per_agent

C1_Witness ==
    /\ Produced
    /\ num_agents >= 3
    /\ trips_per_agent >= 2
    /\ Len(Persons) = num_agents

\* C2: every plan is an alternating sequence of activities and legs that
\* begins and ends with an activity: no two activities and no two legs are
\* adjacent.
C2_Alternating ==
    Produced =>
        \A p \in 1..Len(Persons) :
            LET c == Plans(Persons[p])[1].children
            IN  /\ c # <<>>
                /\ c[1].tag = "activity"
                /\ c[Len(c)].tag = "activity"
                /\ \A k \in 1..Len(c) : c[k].tag \in {"activity", "leg"}
                /\ \A k \in 1..(Len(c) - 1) : c[k].tag # c[k + 1].tag

\* C3: in every plan the last activity has no end_time and every other
\* activity has one; the first activity of a trip carries the trip's jittered
\* time, and the final activity of a trip that is not the agent's last
\* carries that time plus 1800 s, both as wall-clock HH:MM:SS.
C3_EndTimes ==
    Produced =>
        \A i \in 0..(num_agents - 1) :
            LET acts == Activities(PlanOf(i))
            IN  /\ Len(acts) = 2 * trips_per_agent
                /\ ~HasAttr(acts[Len(acts)], "end_time")
                /\ \A k \in 1..(Len(acts) - 1) : HasAttr(acts[k], "end_time")
                /\ \A j \in 0..(trips_per_agent - 1) :
                     /\ HasAttr(acts[2 * j + 1], "end_time")
                     /\ GetAttr(acts[2 * j + 1], "end_time")
                            = StrfTime(TimeOf(i, j))
                     /\ HasAttr(acts[2 * j + 2], "end_time")
                            <=> j # trips_per_agent - 1
                     /\ j # trips_per_agent - 1 =>
                            GetAttr(acts[2 * j + 2], "end_time")
                                = StrfTime([s |-> TimeOf(i, j).s + 1800,
                                            us |-> TimeOf(i, j).us])

\* a plan of several trips whose end times cross midnight
C3_Witness ==
    /\ Produced
    /\ trips_per_agent >= 2
    /\ num_agents >= 2
    /\ \E k \in 1..Len(trip_times) :
         /\ trip_times[k].time.s < SecondsPerDay
         /\ trip_times[k].time.s + 1800 >= SecondsPerDay
         /\ trip_times[k].trip < trips_per_agent - 1

\* C4: even-indexed trips are eastbound (home at link 1, route "1,3,5", work
\* at link 6), odd-indexed trips are westbound (work at link 6, route
\* "6,4,2", home at link 1), and no other type, link or route text appears.
C4_Directions ==
    Produced =>
        \A i \in 0..(num_agents - 1) :
            LET acts == Activities(PlanOf(i))
                legs == Legs(PlanOf(i))
            IN  /\ Len(acts) = 2 * trips_per_agent
                /\ Len(legs) = trips_per_agent
                /\ \A j \in 0..(trips_per_agent - 1) :
                     LET first == acts[2 * j + 1]
                         final == acts[2 * j + 2]
                         route == legs[j + 1].children[1]
                     IN  IF j % 2 = 0
                         THEN /\ GetAttr(first, "type") = "home"
                              /\ GetAttr(first, "link") = "1"
                              /\ route.text = "1,3,5"
                              /\ GetAttr(final, "type") = "work"
                              /\ GetAttr(final, "link") = "6"
                         ELSE /\ GetAttr(first, "type") = "work"
                              /\ GetAttr(first, "link") = "6"
                              /\ route.text = "6,4,2"
                              /\ GetAttr(final, "type") = "home"
                              /\ GetAttr(final, "link") = "1"
                /\ \A k \in 1..Len(acts) :
                     /\ GetAttr(acts[k], "type") \in {"home", "work"}
                     /\ GetAttr(acts[k], "link") \in {"1", "6"}
                /\ \A k \in 1..Len(legs) :
                     /\ Len(legs[k].children) = 1
                     /\ legs[k].children[1].tag = "route"
                     /\ legs[k].children[1].text \in {"1,3,5", "6,4,2"}

C4_Witness ==
    /\ Produced
    /\ trips_per_agent = 3
    /\ num_agents = 2
    /\ Legs(PlanOf(1))[2].children[1].text = "6,4,2"
    /\ Legs(PlanOf(1))[3].children[1].text = "1,3,5"

\* instant t is start_time + slot * window / total + v for a whole number
\* of seconds v with |v| <= mv
ExactlyNominal(t, mv, slot, window, total) ==
    LET v == t.s - start_time.s - ((slot * window) \div total)
    IN  /\ v >= 0 - mv /\ v <= mv
        /\ t.us * total = ((slot * window) % total) * MicrosPerSecond

\* instant t is within one microsecond of start_time + slot * window / total
\* + v for a whole number of seconds v with |v| <= mv
NominalToTheMicrosecond(t, mv, slot, window, total) ==
    \E d \in {-1, 0, 1} :
        LET v == t.s - start_time.s - ((slot * window) \div total) - d
        IN  /\ v >= 0 - mv /\ v <= mv
            /\ Abs((d * MicrosPerSecond + t.us) * total
                   - ((slot * window) % total) * MicrosPerSecond) < total

\* C5 as claimed: every trip's instant differs from start + slot * spacing,
\* slot = agent_index * trips_per_agent + trip_index and spacing =
\* window / total trips, by a whole number of seconds within
\* floor(spacing * 0.1) of zero.
C5_ExactNominal ==
    \A k \in 1..Len(trip_times) :
        LET e == trip_times[k]
            total == num_agents * trips_per_agent
        IN  ExactlyNominal(e.time, time_window \div (10 * total),
                           e.agent * trips_per_agent + e.trip,
                           time_window, total)

\* C5 as amended: every trip's instant differs from start + slot * spacing by
\* a whole number of seconds within floor(spacing * 0.1) of zero, up to the
\* rounding of the nominal offset to the microsecond (less than one
\* microsecond); nothing clamps it to the window.
C5_RoundedNominal ==
    \A k \in 1..Len(trip_times) :
        LET e == trip_times[k]
            total == num_agents * trips_per_agent
        IN  NominalToTheMicrosecond(e.time, time_window \div (10 * total),
                                    e.agent * trips_per_agent + e.trip,
                                    time_window, total)

\* a trip jittered to before the start of the window, and a later trip
\* whose nominal offset is no whole number of microseconds
C5_Witness ==
    /\ Len(trip_times) >= 2
    /\ Before(trip_times[1].time, start_time)
    /\ variation # 0
    /\ (((trip_slot * time_window) % total_trips) * MicrosPerSecond)
           % total_trips # 0
    /\ trip_times[Len(trip_times)].time = trip_time

\* C6: the window is (end_hour - start_hour) * 3600 s when end_hour >
\* start_hour and (end_hour - start_hour + 24) * 3600 s otherwise, so it lies
\* in 3600..86400 s and the spacing is strictly positive.
C6_Window ==
    pc # "create_population" =>
        /\ time_window = IF end_hour > start_hour
                         THEN (end_hour - start_hour) * 3600
                         ELSE (end_hour - start_hour + 24) * 3600
        /\ time_window >= 3600
        /\ time_window <= 86400
        /\ total_trips > 0

ExpectedType(i) ==
    CASE i % 3 = 0 -> "ev"
      [] i % 3 = 1 -> "lev"
      [] i % 3 = 2 -> "hev"

VehicleTag(person) == WithTag(person.children, "attributes")[1].children[1]

\* C7 as claimed: person i carries the vehicle type {ev,lev,hev}[i mod 3] as
\* the value of its vehicleType attribute and as the prefix of its id, the id
\* is "<vehicleType>_agent_<i>", and the ids are pairwise distinct.
C7_TypeAsAttribute ==
    Produced =>
        /\ \A i \in 0..(Len(Persons) - 1) :
             /\ GetAttr(VehicleTag(Persons[i + 1]), "name") = "vehicleType"
             /\ VehicleTag(Persons[i + 1]).text = ExpectedType(i)
             /\ GetAttr(Persons[i + 1], "id")
                    = ExpectedType(i) \o "_agent_" \o ToString(i)
        /\ \A i, j \in 1..Len(Persons) :
             i # j => GetAttr(Persons[i], "id") # GetAttr(Persons[j], "id")

\* C7 as amended: the vehicleType attribute of person i carries
\* "<vehicleType>_car" for vehicleType = {ev,lev,hev}[i mod 3], the id is
\* "<vehicleType>_agent_<i>", and the ids are pairwise distinct.
C7_TypeWithCarSuffix ==
    Produced =>
        /\ \A i \in 0..(Len(Persons) - 1) :
             /\ GetAttr(VehicleTag(Persons[i + 1]), "name") = "vehicleType"
             /\ VehicleTag(Persons[i + 1]).text = ExpectedType(i) \o "_car"
             /\ GetAttr(Persons[i + 1], "id")
                    = ExpectedType(i) \o "_agent_" \o ToString(i)
        /\ \A i, j \in 1..Len(Persons) :
             i # j => GetAttr(Persons[i], "id") # GetAttr(Persons[j], "id")

\* the rotation has come round: the fourth person is an ev again
C7_Witness ==
    /\ Produced
    /\ Len(Persons) >= 5
    /\ GetAttr(Persons[4], "id") = "ev_agent_3"
    /\ GetAttr(Persons[5], "id") = "lev_agent_4"

\* C8: a run that ends with status 1 has created, truncated or partly
\* filled no file, and after a validation error the builder was never
\* invoked; every failed run ends with status 1.
C8_NoPartialFile ==
    /\ error # "none" => exit_code = 1
    /\ exit_code = 1 =>
        /\ fs = fs_before
        /\ opened = {}
        /\ error = "ValueError" => population = Element("none")

GapCovers(a, b, mv, slack, window, total, strict) ==
    LET d == b.s - a.s + 2 * mv - (window \div total)
        lhs == (d * MicrosPerSecond + (b.us - a.us) + slack) * total
        rhs == (window % total) * MicrosPerSecond
    IN  IF d >= 2 THEN TRUE
        ELSE IF d <= -2 THEN FALSE
        ELSE IF strict THEN lhs > rhs ELSE lhs >= rhs

\* C10 as claimed: the jittered instants are strictly increasing in slot
\* order, consecutive slots differing by at least
\* spacing - 2 * floor(spacing * 0.1) seconds.
C10_GapAtLeast ==
    \A k \in 1..(Len(trip_times) - 1) :
        LET a == trip_times[k]
            b == trip_times[k + 1]
            total == num_agents * trips_per_agent
            mv == time_window \div (10 * total)
        IN  /\ b.agent * trips_per_agent + b.trip
                 = a.agent * trips_per_agent + a.trip + 1
            /\ Before(a.time, b.time)
            /\ GapCovers(a.time, b.time, mv, 0, time_window, total, FALSE)

\* C10 as amended: the jittered instants are strictly increasing in slot
\* order, consecutive slots differing by more than
\* spacing - 2 * floor(spacing * 0.1) seconds less one microsecond.
C10_StrictlyIncreasing ==
    \A k \in 1..(Len(trip_times) - 1) :
        LET a == trip_times[k]
            b == trip_times[k + 1]
            total == num_agents * trips_per_agent
            mv == time_window \div (10 * total)
        IN  /\ b.agent * trips_per_agent + b.trip
                 = a.agent * trips_per_agent + a.trip + 1
            /\ Before(a.time, b.time)
            /\ GapCovers(a.time, b.time, mv, 1, time_window, total, TRUE)

\* two consecutive trips, of different agents, jittered towards each other
C10_Witness ==
    /\ Len(trip_times) >= 2
    /\ max_variation > 0
    /\ \E k \in 1..(Len(trip_times) - 1) :
         /\ trip_times[k].agent # trip_times[k + 1].agent
         /\ trip_times[k + 1].time.s - trip_times[k].time.s
                <= (time_window \div total_trips) - 2 * max_variation + 1

====
